---- MODULE Spec2Model ----
(***************************************************************************)
(* Model of src/hetzner_dns.rs: the HetznerDns provider client and its     *)
(* update_or_create_dns_record reconciliation.  Every await of the source  *)
(* is one HTTP exchange with the DNS provider; an action of the model is   *)
(* one exchange together with the code that runs up to the next await.     *)
(***************************************************************************)
EXTENDS Integers, Sequences, FiniteSets, TLC

(* ------------------------------ bounds --------------------------------- *)

\* longest record listing the provider holds before the first call
MaxInit == 2
\* largest record id the provider hands out
MaxId == 3

\* concurrent callers of the client
Calls == {1, 2}

Zones == {"z1", "z2"}
Types == {"A", "TXT"}
Names == {"app", "APP", "app."}
Values == {"v1", "v2"}
Ttls == {60, 300}

(* --------------------------- data types -------------------------------- *)

\* HetznerConfig.dns_zone_id
ConfigZone == "z1"

\* The record the model centres on.  To keep the state space small a record or a
\* desired record departs from it either in value and ttl only, or in exactly one
\* of zone, type and name.
Base == [zone_id |-> "z1", type_ |-> "A", name |-> "app", value |-> "v1", ttl |-> 60]

Off(b) == IF b THEN 0 ELSE 1

\* consul::DnsRecord, the desired record handed to update_or_create_dns_record
Desired ==
  { d \in [hostname : Names, type_ : Types, value : Values, ttl : Ttls] :
      \/ d.hostname = Base.name /\ d.type_ = Base.type_
      \/ /\ Off(d.hostname = Base.name) + Off(d.type_ = Base.type_) = 1
         /\ d.value = Base.value /\ d.ttl = Base.ttl }

\* the fields of a record other than its id
Contents ==
  { c \in [zone_id : Zones, type_ : Types, name : Names, value : Values, ttl : Ttls] :
      LET odd == Off(c.zone_id = Base.zone_id) + Off(c.type_ = Base.type_)
                   + Off(c.name = Base.name)
      IN  \/ odd = 0
          \/ odd = 1 /\ c.value = Base.value /\ c.ttl = Base.ttl }

\* dns_trait::DnsRecord as the provider lists it
WithId(c, i) ==
  [id |-> i, zone_id |-> c.zone_id, type_ |-> c.type_, name |-> c.name,
   value |-> c.value, ttl |-> c.ttl]

\* Result<_, Error>: val holds the Ok payload (a record, a listing, or nothing)
Ok(v) == [ok |-> TRUE, err |-> "none", val |-> v]
Err(e) == [ok |-> FALSE, err |-> e, val |-> <<>>]

\* an HTTP response body: a JSON document that decodes to val, or one that does not
Json(v) == [decodes |-> TRUE, val |-> v]
Garbage == [decodes |-> FALSE, val |-> <<>>]

\* what send() yields: no response at all, or a status and a body
NoResponse == [arrived |-> FALSE, success |-> FALSE, body |-> Garbage]
Response(s, b) == [arrived |-> TRUE, success |-> s, body |-> b]

VARIABLES
  records,   \* the provider's listing of the zone, in list order
  nextId,    \* the id the provider assigns to the next created record
  pc,        \* per caller: "idle", "update", "create", "done"
  desired,   \* per caller: dns_record of the running call
  trace,     \* per caller: the HTTP exchanges of the running call, in order
  result,    \* per caller: what the call returned
  repeat,    \* the running call repeats the previous call, whose effect is stored
  start,     \* the provider's listing before the first call, where a claim compares with it
  stale      \* "undone": another writer has undone what the last call of caller 1
             \* left; "restoring": the running call repeats that call; else "no"

vars == <<records, nextId, pc, desired, trace, result, repeat, start, stale>>

(* ------------------- the provider (remote service) --------------------- *)

Min(S) == CHOOSE x \in S : \A y \in S : x <= y

\* positions of the record with identity id in the provider's listing
PosOf(id) == {i \in 1..Len(records) : records[i].id = id}

Without(list, i) == [j \in 1..(Len(list) - 1) |-> IF j < i THEN list[j] ELSE list[j + 1]]

\* An exchange: the response the client sees, the provider's listing after it,
\* and whether the provider applied the request.
Exchange(r, s, a) == [resp |-> r, store |-> s, applied |-> a]

\* GET {base}/records?zone_id={zone}
GetOutcomes ==
  { Exchange(NoResponse, records, FALSE) }
  \cup { Exchange(Response(s, b), records, s) :
           s \in BOOLEAN, b \in {Json(records), Garbage} }

\* POST {base}/records: the provider stores the record as submitted under a fresh id
PostOutcomes(req) ==
  LET stored == WithId(req, nextId)
      after == Append(records, stored)
  IN  { Exchange(NoResponse, records, FALSE) }
      \cup { Exchange(Response(FALSE, b), records, FALSE) :
               b \in {Json(<<WithId(req, 0)>>), Garbage} }
      \cup IF nextId <= MaxId
           THEN { Exchange(NoResponse, after, TRUE) }
                \cup { Exchange(Response(TRUE, b), after, TRUE) :
                         b \in {Json(<<stored>>), Garbage} }
           ELSE {}

\* PUT {base}/records/{id}: a full replace of the identified record, in place;
\* an id the provider does not hold is answered with a failure status
PutOutcomes(rec) ==
  LET at == PosOf(rec.id)
      after == [records EXCEPT ![Min(at)] = rec]
  IN  { Exchange(NoResponse, records, FALSE) }
      \cup { Exchange(Response(FALSE, b), records, FALSE) :
               b \in {Json(<<rec>>), Garbage} }
      \cup IF at # {}
           THEN { Exchange(NoResponse, after, TRUE) }
                \cup { Exchange(Response(TRUE, b), after, TRUE) :
                         b \in {Json(<<rec>>), Garbage} }
           ELSE {}

\* DELETE {base}/records/{id}: no body; an unknown id is a failure status
DeleteOutcomes(id) ==
  LET at == PosOf(id)
      after == Without(records, Min(at))
  IN  { Exchange(NoResponse, records, FALSE),
        Exchange(Response(FALSE, Garbage), records, FALSE) }
      \cup IF at # {}
           THEN { Exchange(NoResponse, after, TRUE),
                  Exchange(Response(TRUE, Garbage), after, TRUE) }
           ELSE {}

(* ------------------------- the client's code --------------------------- *)

\* list_dns_records without its error_for_status()
ListResultAnyStatus(resp) ==
  IF ~resp.arrived THEN Err("transport")
  ELSE IF ~resp.body.decodes THEN Err("decode")
  ELSE Ok(resp.body.val)

\* list_dns_records: send()?, error_for_status(), json::<RecordsWrapper>()?
ListResult(resp) ==
  IF ~resp.arrived THEN Err("transport")
  ELSE IF ~resp.success THEN Err("status")
  ELSE IF ~resp.body.decodes THEN Err("decode")
  ELSE Ok(resp.body.val)

\* update_dns_record: send()?, json::<RecordResponse>()? (the status is not looked at)
UpdateResult(resp) ==
  IF ~resp.arrived THEN Err("transport")
  ELSE IF ~resp.body.decodes THEN Err("decode")
  ELSE Ok(resp.body.val)

\* create_dns_record: send()?, error_for_status()?, json::<RecordResponse>()?
CreateResult(resp) ==
  IF ~resp.arrived THEN Err("transport")
  ELSE IF ~resp.success THEN Err("status")
  ELSE IF ~resp.body.decodes THEN Err("decode")
  ELSE Ok(resp.body.val)

\* delete_dns_record without its error_for_status()
DeleteResultAnyStatus(resp) ==
  IF ~resp.arrived THEN Err("transport")
  ELSE Ok(<<>>)

\* delete_dns_record: send()?, error_for_status()?, Ok(())
DeleteResult(resp) ==
  IF ~resp.arrived THEN Err("transport")
  ELSE IF ~resp.success THEN Err("status")
  ELSE Ok(<<>>)

\* the lower-case form of a name
Lower(n) == IF n = "APP" THEN "app" ELSE n

\* find(..) comparing names without regard to letter case
FindMatchIgnoreCase(list, d) ==
  LET hits == {i \in 1..Len(list) :
                 Lower(list[i].name) = Lower(d.hostname) /\ list[i].type_ = d.type_}
  IN  IF hits = {} THEN <<>> ELSE <<list[Min(hits)]>>

\* the greatest element of a set of numbers
Max(S) == CHOOSE x \in S : \A y \in S : x >= y

\* a search that keeps the last record with the desired name and type
FindMatchLast(list, d) ==
  LET hits == {i \in 1..Len(list) :
                 list[i].name = d.hostname /\ list[i].type_ = d.type_}
  IN  IF hits = {} THEN <<>> ELSE <<list[Max(hits)]>>

\* find(..) comparing the name only
FindMatchByName(list, d) ==
  LET hits == {i \in 1..Len(list) : list[i].name = d.hostname}
  IN  IF hits = {} THEN <<>> ELSE <<list[Min(hits)]>>

\* existing_records.iter().find(..): the first record with the desired name and type,
\* as an option (a sequence of length 0 or 1)
FindMatch(list, d) ==
  LET hits == {i \in 1..Len(list) :
                 list[i].name = d.hostname /\ list[i].type_ = d.type_}
  IN  IF hits = {} THEN <<>> ELSE <<list[Min(hits)]>>

\* the comparison without its ttl half
NeedsUpdateValueOnly(record, d) == record.value # d.value

\* a comparison that never finds the record up to date
NeedsUpdateAlways(record, d) == TRUE

\* record.value != dns_record.value || record.ttl != dns_record.ttl
NeedsUpdate(record, d) == record.value # d.value \/ record.ttl # d.ttl

\* an updated record that keeps the old ttl
UpdatedRecordOldTtl(record, d) ==
  [id |-> record.id, zone_id |-> record.zone_id, type_ |-> d.type_,
   name |-> d.hostname, value |-> d.value, ttl |-> record.ttl]

\* the DnsRecord sent to update_dns_record
UpdatedRecord(record, d) ==
  [id |-> record.id, zone_id |-> record.zone_id, type_ |-> d.type_,
   name |-> d.hostname, value |-> d.value, ttl |-> d.ttl]

\* a create request whose value is filled from the hostname
NewRecordWrongValue(d) ==
  [zone_id |-> ConfigZone, type_ |-> d.type_, name |-> d.hostname,
   value |-> d.hostname, ttl |-> d.ttl]

\* the DnsRecordCreate sent to create_dns_record
NewRecord(d) ==
  [zone_id |-> ConfigZone, type_ |-> d.type_, name |-> d.hostname,
   value |-> d.value, ttl |-> d.ttl]

\* one entry of a call's trace
Sent(op, req, x) == [op |-> op, req |-> req, resp |-> x.resp, applied |-> x.applied]

\* existing_records of the running call
Listed(c) == ListResult(trace[c][1].resp).val

\* where the call goes after a successful list
NextStep(list, d) ==
  LET m == FindMatch(list, d)
  IN  IF m = <<>> THEN "create"
      ELSE IF NeedsUpdate(m[1], d) THEN "update"
      ELSE "done"

\* a list step that answers an up-to-date match with a record built from the desired one
ReconcileListInvents(c, d) ==
  /\ pc[c] \in {"idle", "done"}
  /\ \E x \in GetOutcomes :
       LET res == ListResult(x.resp)
           step == IF res.ok THEN NextStep(res.val, d) ELSE "done"
       IN  /\ records' = x.store
           /\ trace' = [trace EXCEPT ![c] = <<Sent("list", ConfigZone, x)>>]
           /\ desired' = [desired EXCEPT ![c] = d]
           /\ pc' = [pc EXCEPT ![c] = step]
           /\ result' = [result EXCEPT ![c] =
                IF ~res.ok THEN Err(res.err)
                ELSE IF step = "done" THEN Ok(<<WithId(NewRecord(d), 0)>>)
                ELSE Err("pending")]
  /\ UNCHANGED nextId

\* a list step that decides on the listing of the caller's previous call when it has one
ReconcileListCached(c, d) ==
  /\ pc[c] \in {"idle", "done"}
  /\ \E x \in GetOutcomes :
       LET res == ListResult(x.resp)
           old == IF trace[c] # <<>> /\ trace[c][1].op = "list"
                  THEN ListResult(trace[c][1].resp) ELSE res
           list == IF res.ok /\ old.ok THEN old.val ELSE res.val
           step == IF res.ok THEN NextStep(list, d) ELSE "done"
       IN  /\ records' = x.store
           /\ trace' = [trace EXCEPT ![c] = <<Sent("list", ConfigZone, x)>>]
           /\ desired' = [desired EXCEPT ![c] = d]
           /\ pc' = [pc EXCEPT ![c] = step]
           /\ result' = [result EXCEPT ![c] =
                IF ~res.ok THEN Err(res.err)
                ELSE IF step = "done" THEN Ok(FindMatch(list, d))
                ELSE Err("pending")]
  /\ UNCHANGED nextId

\* update_or_create_dns_record, entry to the end of the list step: a failed list
\* returns the error, an up-to-date match returns the match
ReconcileList(c, d) ==
  /\ pc[c] \in {"idle", "done"}
  /\ \E x \in GetOutcomes :
       LET res == ListResult(x.resp)
           step == IF res.ok THEN NextStep(res.val, d) ELSE "done"
       IN  /\ records' = x.store
           /\ trace' = [trace EXCEPT ![c] = <<Sent("list", ConfigZone, x)>>]
           /\ desired' = [desired EXCEPT ![c] = d]
           /\ pc' = [pc EXCEPT ![c] = step]
           /\ result' = [result EXCEPT ![c] =
                IF ~res.ok THEN Err(res.err)
                ELSE IF step = "done" THEN Ok(FindMatch(res.val, d))
                ELSE Err("pending")]
  /\ UNCHANGED nextId

\* an update branch that sends the update again when it failed
ReconcileUpdateRetry(c) ==
  /\ pc[c] = "update"
  /\ LET rec == UpdatedRecord(FindMatch(Listed(c), desired[c])[1], desired[c])
     IN  \E x \in PutOutcomes(rec) :
           /\ records' = x.store
           /\ trace' = [trace EXCEPT ![c] = Append(@, Sent("update", rec, x))]
           /\ result' = [result EXCEPT ![c] = UpdateResult(x.resp)]
           /\ pc' = [pc EXCEPT ![c] =
                IF UpdateResult(x.resp).ok THEN "done" ELSE "update"]
  /\ UNCHANGED <<nextId, desired>>

\* an update branch that deletes the matched record and goes on to create a new one
ReconcileUpdateByDelete(c) ==
  /\ pc[c] = "update"
  /\ LET id == FindMatch(Listed(c), desired[c])[1].id
     IN  \E x \in DeleteOutcomes(id) :
           /\ records' = x.store
           /\ trace' = [trace EXCEPT ![c] = Append(@, Sent("delete", id, x))]
           /\ result' = [result EXCEPT ![c] = DeleteResult(x.resp)]
           /\ pc' = [pc EXCEPT ![c] = IF DeleteResult(x.resp).ok THEN "create" ELSE "done"]
  /\ UNCHANGED <<nextId, desired>>

\* update_or_create_dns_record, the update branch
ReconcileUpdate(c) ==
  /\ pc[c] = "update"
  /\ LET rec == UpdatedRecord(FindMatch(Listed(c), desired[c])[1], desired[c])
     IN  \E x \in PutOutcomes(rec) :
           /\ records' = x.store
           /\ trace' = [trace EXCEPT ![c] = Append(@, Sent("update", rec, x))]
           /\ result' = [result EXCEPT ![c] = UpdateResult(x.resp)]
  /\ pc' = [pc EXCEPT ![c] = "done"]
  /\ UNCHANGED <<nextId, desired>>

\* update_or_create_dns_record, the create branch
ReconcileCreate(c) ==
  /\ pc[c] = "create"
  /\ LET req == NewRecord(desired[c])
     IN  \E x \in PostOutcomes(req) :
           /\ records' = x.store
           /\ nextId' = IF x.applied THEN nextId + 1 ELSE nextId
           /\ trace' = [trace EXCEPT ![c] = Append(@, Sent("create", req, x))]
           /\ result' = [result EXCEPT ![c] = CreateResult(x.resp)]
  /\ pc' = [pc EXCEPT ![c] = "done"]
  /\ UNCHANGED desired

\* delete_dns_record
DeleteRecord(c, id) ==
  /\ pc[c] \in {"idle", "done"}
  /\ \E x \in DeleteOutcomes(id) :
       /\ records' = x.store
       /\ trace' = [trace EXCEPT ![c] = <<Sent("delete", id, x)>>]
       /\ result' = [result EXCEPT ![c] = DeleteResult(x.resp)]
  /\ pc' = [pc EXCEPT ![c] = "done"]
  /\ UNCHANGED <<nextId, desired>>

(* --------------------------- specifications ---------------------------- *)

\* the listings the provider may hold at the start: ids 1..n in list order
InitListings ==
  UNION { { [i \in 1..n |-> WithId(f[i], i)] : f \in [1..n -> Contents] } : n \in 0..MaxInit }

NoDesired ==
  [hostname |-> Base.name, type_ |-> Base.type_, value |-> Base.value, ttl |-> Base.ttl]

Init ==
  /\ records \in InitListings
  /\ nextId = Len(records) + 1
  /\ pc = [c \in Calls |-> "idle"]
  /\ desired = [c \in Calls |-> NoDesired]
  /\ trace = [c \in Calls |-> <<>>]
  /\ result = [c \in Calls |-> Err("pending")]
  /\ repeat = FALSE
  /\ start = <<>>
  /\ stale = "no"

\* the provider holds what the caller's last call asked for: its write was applied,
\* or it found the record up to date
Settled(c) ==
  /\ pc[c] = "done"
  /\ trace[c] # <<>>
  /\ trace[c][1].op = "list"
  /\ \/ Len(trace[c]) = 2 /\ trace[c][2].applied
     \/ Len(trace[c]) = 1 /\ result[c].ok

\* One caller reconciling one record after another, no other writer.
SeqList ==
  \E d \in Desired :
    /\ ReconcileList(1, d)
    /\ repeat' = (Settled(1) /\ d = desired[1])
    /\ UNCHANGED <<start, stale>>

SeqUpdate == ReconcileUpdate(1) /\ UNCHANGED <<repeat, start, stale>>

SeqCreate == ReconcileCreate(1) /\ UNCHANGED <<repeat, start, stale>>

NextSeq == SeqList \/ SeqUpdate \/ SeqCreate

SpecSeq == Init /\ [][NextSeq]_vars

\* Two callers, each making one call (a reconcile or a delete) against the same
\* provider, their exchanges interleaved in any order.
InitRace == Init /\ Len(records) < MaxInit

RaceList ==
  \E c \in Calls, d \in Desired :
    pc[c] = "idle" /\ ReconcileList(c, d) /\ UNCHANGED <<repeat, start, stale>>

RaceUpdate == \E c \in Calls : ReconcileUpdate(c) /\ UNCHANGED <<repeat, start, stale>>

RaceCreate == \E c \in Calls : ReconcileCreate(c) /\ UNCHANGED <<repeat, start, stale>>

RaceDelete ==
  \E c \in Calls, id \in 1..MaxId :
    pc[c] = "idle" /\ DeleteRecord(c, id) /\ UNCHANGED <<repeat, start, stale>>

Next == RaceList \/ RaceUpdate \/ RaceCreate \/ RaceDelete

Spec == InitRace /\ [][Next]_vars

\* Two callers, each reconciling one record, the two hostnames different and every
\* request answered with a success status and a body that decodes.
ParDesired == [hostname : Names, type_ : {Base.type_}, value : Values, ttl : Ttls]

InitPar ==
  /\ records \in InitListings
  /\ nextId = Len(records) + 1
  /\ pc = [c \in Calls |-> "idle"]
  /\ desired = [c \in Calls |-> NoDesired]
  /\ trace = [c \in Calls |-> <<>>]
  /\ result = [c \in Calls |-> Err("pending")]
  /\ repeat = FALSE
  /\ start = records
  /\ stale = "no"

Answered(c) ==
  LET last == trace'[c][Len(trace'[c])].resp
  IN  last.arrived /\ last.success /\ last.body.decodes

ParList ==
  \E c \in Calls, d \in ParDesired :
    /\ pc[c] = "idle"
    /\ \A o \in Calls \ {c} : pc[o] # "idle" => desired[o].hostname # d.hostname
    /\ ReconcileList(c, d)
    /\ Answered(c)
    /\ UNCHANGED <<repeat, start, stale>>

ParUpdate ==
  \E c \in Calls : ReconcileUpdate(c) /\ Answered(c) /\ UNCHANGED <<repeat, start, stale>>

ParCreate ==
  \E c \in Calls : ReconcileCreate(c) /\ Answered(c) /\ UNCHANGED <<repeat, start, stale>>

NextPar == ParList \/ ParUpdate \/ ParCreate

SpecPar == InitPar /\ [][NextPar]_vars

\* update_or_create_dns_record run on its own, every request served: the step it
\* takes on the listing and the listing the provider holds afterwards
RunAlone(list, d) ==
  LET step == NextStep(list, d)
      m == FindMatch(list, d)
      at == Min({i \in 1..Len(list) : list[i].id = m[1].id})
  IN  IF step = "create"
        THEN [act |-> "create",
              list |-> Append(list, WithId(NewRecord(d), Len(list) + 1))]
      ELSE IF step = "update"
        THEN [act |-> "update",
              list |-> [list EXCEPT ![at] = UpdatedRecord(m[1], d)]]
      ELSE [act |-> "none", list |-> list]

\* One caller reconciling one record after another; once, between two calls, another
\* writer deletes the record the last call left or changes its value and ttl.
InitOob == Init /\ Len(records) < MaxInit

\* the first record of list with d's name and type is what d asks for
FirstIsDesired(list, d) ==
  /\ FindMatch(list, d) # <<>>
  /\ ~NeedsUpdate(FindMatch(list, d)[1], d)

Undone(list) ==
  IF Settled(1) /\ ~FirstIsDesired(list, desired[1]) THEN "undone" ELSE "no"

\* the call after the other writer's change is the last one, and reconciles the
\* same desired record again
OobList ==
  \E d \in Desired :
    /\ stale # "restoring"
    /\ stale = "undone" => d = desired[1]
    /\ ReconcileList(1, d)
    /\ repeat' = (Settled(1) /\ d = desired[1] /\ stale # "undone")
    /\ stale' = IF stale = "undone" THEN "restoring" ELSE "no"
    /\ UNCHANGED start

OobUpdate == ReconcileUpdate(1) /\ UNCHANGED <<repeat, start, stale>>

OobCreate == ReconcileCreate(1) /\ UNCHANGED <<repeat, start, stale>>

\* the position of the record the last call of caller 1 left: the first record
\* with its desired name and type, once the provider holds what it asked for
LeftAt ==
  {i \in 1..Len(records) :
     /\ Settled(1)
     /\ stale # "undone"
     /\ FirstIsDesired(records, desired[1])
     /\ records[i].id = FindMatch(records, desired[1])[1].id}

\* another writer deletes that record
OtherDelete ==
  \E i \in LeftAt :
    /\ records' = Without(records, i)
    /\ stale' = Undone(records')
    /\ UNCHANGED <<nextId, pc, desired, trace, result, repeat, start>>

\* another writer changes the value and ttl of that record
OtherChange ==
  \E i \in LeftAt, v \in Values, t \in Ttls :
    /\ <<v, t>> # <<records[i].value, records[i].ttl>>
    /\ records' = [records EXCEPT ![i].value = v, ![i].ttl = t]
    /\ stale' = Undone(records')
    /\ UNCHANGED <<nextId, pc, desired, trace, result, repeat, start>>

NextOob == OobList \/ OobUpdate \/ OobCreate \/ OtherDelete \/ OtherChange

SpecOob == InitOob /\ [][NextOob]_vars

(* ------------------------------ claims --------------------------------- *)

\* the call of caller c is a reconcile call that has issued its list request
Reconciling(c) == trace[c] # <<>> /\ trace[c][1].op = "list"

\* the list request of caller c was answered with a success status and a listing
ListSucceeded(c) ==
  /\ Reconciling(c)
  /\ trace[c][1].resp.arrived
  /\ trace[c][1].resp.success
  /\ trace[c][1].resp.body.decodes

\* the listing the provider returned to caller c
Returned(c) == trace[c][1].resp.body.val

SameKey(r, d) == r.name = d.hostname /\ r.type_ = d.type_

\* i is the position of the first record of list with d's name and type
FirstAt(list, d, i) ==
  /\ i \in 1..Len(list)
  /\ SameKey(list[i], d)
  /\ \A j \in 1..(i - 1) : ~SameKey(list[j], d)

NoMatch(list, d) == \A i \in 1..Len(list) : ~SameKey(list[i], d)

Good(resp) == resp.arrived /\ resp.success /\ resp.body.decodes

\* C1: when the returned list holds no record with the desired name and type, the
\* call issues exactly one create request carrying the configured zone and the
\* desired type, name, value and ttl, issues no update request, and returns the
\* record of the provider's create response unchanged.
C1_CreatePath ==
  \A c \in Calls :
    (ListSucceeded(c) /\ NoMatch(Returned(c), desired[c])) =>
      /\ pc[c] \in {"create", "done"}
      /\ pc[c] = "create" => Len(trace[c]) = 1
      /\ pc[c] = "done" =>
           /\ Len(trace[c]) = 2
           /\ trace[c][2].op = "create"
           /\ trace[c][2].req =
                [zone_id |-> ConfigZone, type_ |-> desired[c].type_,
                 name |-> desired[c].hostname, value |-> desired[c].value,
                 ttl |-> desired[c].ttl]
           /\ Good(trace[c][2].resp) =>
                result[c] = Ok(trace[c][2].resp.body.val)
           /\ result[c].ok => result[c].val = trace[c][2].resp.body.val

C1_Witness ==
  \E c \in Calls :
    /\ pc[c] = "done"
    /\ ListSucceeded(c)
    /\ NoMatch(Returned(c), desired[c])
    /\ Len(trace[c]) = 2
    /\ Good(trace[c][2].resp)
    /\ result[c].ok
    /\ result[c].val[1].id = nextId - 1
    /\ \E i \in 1..Len(records) : records[i] = result[c].val[1]

\* C2: when the first listed record r with the desired name and type differs from
\* the desired record in value or in ttl, the call issues exactly one update request
\* with r's id and r's zone id and the desired type, name, value and ttl, and no
\* create request.
C2_UpdatePath ==
  \A c \in Calls :
    ListSucceeded(c) =>
      \A i \in 1..Len(Returned(c)) :
        LET r == Returned(c)[i]
            d == desired[c]
        IN  (FirstAt(Returned(c), d, i) /\ (r.value # d.value \/ r.ttl # d.ttl)) =>
              /\ pc[c] \in {"update", "done"}
              /\ pc[c] = "update" => Len(trace[c]) = 1
              /\ pc[c] = "done" =>
                   /\ Len(trace[c]) = 2
                   /\ trace[c][2].op = "update"
                   /\ trace[c][2].req =
                        [id |-> r.id, zone_id |-> r.zone_id, type_ |-> d.type_,
                         name |-> d.hostname, value |-> d.value, ttl |-> d.ttl]

\* an update caused by the ttl alone, of a record whose zone id is not the configured one
C2_Witness ==
  \E c \in Calls :
    /\ pc[c] = "done"
    /\ ListSucceeded(c)
    /\ Len(trace[c]) = 2
    /\ trace[c][2].op = "update"
    /\ trace[c][2].req.zone_id # ConfigZone
    /\ \E i \in 1..Len(Returned(c)) :
         /\ FirstAt(Returned(c), desired[c], i)
         /\ Returned(c)[i].value = desired[c].value
         /\ Returned(c)[i].ttl # desired[c].ttl

\* C3: when the first listed record r with the desired name and type has the desired
\* value and ttl, the call's only request is the list and it returns r as listed.
C3_NoOp ==
  \A c \in Calls :
    ListSucceeded(c) =>
      \A i \in 1..Len(Returned(c)) :
        LET r == Returned(c)[i]
            d == desired[c]
        IN  (FirstAt(Returned(c), d, i) /\ r.value = d.value /\ r.ttl = d.ttl) =>
              /\ pc[c] = "done"
              /\ Len(trace[c]) = 1
              /\ result[c] = Ok(<<r>>)

C3_Witness ==
  \E c \in Calls :
    /\ pc[c] = "done"
    /\ ListSucceeded(c)
    /\ Len(trace[c]) = 1
    /\ result[c].ok
    /\ \E i \in 1..Len(Returned(c)) :
         /\ FirstAt(Returned(c), desired[c], i)
         /\ result[c].val = <<Returned(c)[i]>>
         /\ result[c].val[1].zone_id # ConfigZone

\* C4: a call that repeats the desired record of the call before it, whose write the
\* provider stored as submitted (or which found the record up to date), with no other
\* writer in between, issues no create and no update request.
C4_Idempotent ==
  repeat => (pc[1] \notin {"create", "update"} /\ Len(trace[1]) <= 1)

C4_Witness ==
  /\ repeat
  /\ pc[1] = "done"
  /\ ListSucceeded(1)
  /\ result[1].ok
  /\ result[1].val[1].id > MaxInit

\* the list request of caller c failed: no response, a failure status, or a body
\* that does not decode
ListFailed(c) == Reconciling(c) /\ ~Good(trace[c][1].resp)

\* the error a failed exchange stands for
FailureOf(resp) ==
  IF ~resp.arrived THEN "transport"
  ELSE IF ~resp.success THEN "status"
  ELSE "decode"

\* C5: when the list step fails, the call returns that failure and has issued no
\* other request, and the step leaves the provider's records as they were.
C5_ListFailure ==
  /\ [](\A c \in Calls :
          ListFailed(c) =>
            /\ pc[c] = "done"
            /\ Len(trace[c]) = 1
            /\ result[c] = Err(FailureOf(trace[c][1].resp)))
  /\ [][\A c \in Calls :
          (trace'[c] # trace[c] /\ ListFailed(c)') =>
            (records' = records /\ nextId' = nextId)]_vars

\* a list answered with a failure status although its body is a listing
C5_Witness ==
  \E c \in Calls :
    /\ ListFailed(c)
    /\ trace[c][1].resp.arrived
    /\ ~trace[c][1].resp.success
    /\ trace[c][1].resp.body.decodes
    /\ NoMatch(trace[c][1].resp.body.val, desired[c])
    /\ result[c] = Err("status")

\* C6: an operation whose request was answered with a failure status returns an
\* error whatever the body holds, and so does one answered with a success status and
\* a body that does not decode.
C6_StatusIsError ==
  \A c \in Calls :
    (pc[c] = "done" /\ trace[c] # <<>>) =>
      LET last == trace[c][Len(trace[c])]
      IN  /\ (last.resp.arrived /\ ~last.resp.success) => ~result[c].ok
          /\ (last.resp.arrived /\ last.resp.success /\ ~last.resp.body.decodes
                /\ last.op # "delete") => ~result[c].ok

Unique(list) ==
  \A i, j \in 1..Len(list) :
    (list[i].name = list[j].name /\ list[i].type_ = list[j].type_) => i = j

\* C10: with one caller reconciling one record after another and no other writer, no
\* step takes the provider from at most one record per name and type to more.
C10_UniquePreserved == [][Unique(records) => Unique(records')]_vars

\* a record was created and every name and type is still held once
C10_Witness ==
  /\ Unique(records)
  /\ pc[1] = "done"
  /\ Len(trace[1]) = 2
  /\ trace[1][2].op = "create"
  /\ trace[1][2].applied
  /\ Len(records) > 1

\* the ids the provider holds
HeldIds == {records[i].id : i \in 1..Len(records)}

KeyHeld(d) == \E i \in 1..Len(records) : SameKey(records[i], d)

\* C8: when the matched record is gone from the provider by the time the update
\* request arrives, the call returns an error, issues no create request, and leaves
\* the desired name and type absent if they were absent.
C8_DeletedBeforeUpdate ==
  [][\A c \in Calls :
       (pc[c] = "update" /\ pc'[c] = "done"
          /\ trace'[c][2].req.id \notin HeldIds) =>
         /\ ~result'[c].ok
         /\ Len(trace'[c]) = 2
         /\ trace'[c][2].op = "update"
         /\ ~KeyHeld(desired[c]) => ~KeyHeld(desired[c])']_vars

\* the records the provider holds that are exactly what d asks for
Holding(d) ==
  {i \in 1..Len(records) :
     SameKey(records[i], d) /\ records[i].value = d.value /\ records[i].ttl = d.ttl}

\* both callers reconciled the same desired record, neither found it listed, and the
\* provider applied the create request of each
BothCreated ==
  /\ desired[1] = desired[2]
  /\ \A c \in Calls :
       /\ pc[c] = "done"
       /\ ListSucceeded(c)
       /\ NoMatch(Returned(c), desired[c])
       /\ Len(trace[c]) = 2
       /\ trace[c][2].op = "create"
       /\ trace[c][2].applied

\* C9: two concurrent reconcile calls for the same desired record that both list
\* before either creates both issue a create request, and once the provider has
\* applied both it holds two records with the desired name, type, value and ttl.
C9_CheckThenAct ==
  /\ (desired[1] = desired[2]
        /\ \A c \in Calls : ListSucceeded(c) /\ NoMatch(Returned(c), desired[c])) =>
       \A c \in Calls :
         /\ pc[c] \in {"create", "done"}
         /\ pc[c] = "done" => (Len(trace[c]) = 2 /\ trace[c][2].op = "create")
  /\ BothCreated => Cardinality(Holding(desired[1])) >= 2

\* the race has happened: no such record at the start, two of them at the end
C9_Witness ==
  /\ BothCreated
  /\ Returned(1) = Returned(2)
  /\ Cardinality(Holding(desired[1])) = 2
  /\ \E i, j \in 1..Len(records) :
       i # j /\ SameKey(records[i], desired[1]) /\ SameKey(records[j], desired[1])

\* what a finished reconcile call did after its list request
ActionOf(c) == IF Len(trace[c]) = 2 THEN trace[c][2].op ELSE "none"

BothDone == \A c \in Calls : pc[c] = "done" /\ Reconciling(c)

\* the listing after running the call for a and then the call for b
OneAfterOther(a, b) == RunAlone(RunAlone(start, a).list, b).list

\* the fields of a record other than its id
Strip(r) ==
  [zone_id |-> r.zone_id, type_ |-> r.type_, name |-> r.name,
   value |-> r.value, ttl |-> r.ttl]

\* the same records at the positions the start listing had, and behind them the same
\* created records, whatever their order and ids
SameButNewIds(a, b) ==
  /\ Len(a) = Len(b)
  /\ \A i \in 1..Len(a) : i <= Len(start) => a[i] = b[i]
  /\ LET tail == {i \in 1..Len(a) : i > Len(start)}
     IN  \E f \in [tail -> tail] :
           /\ \A i, j \in tail : f[i] = f[j] => i = j
           /\ \A i \in tail : Strip(a[i]) = Strip(b[f[i]])

\* C11 as stated: concurrent reconcile calls for different hostnames, all requests
\* succeeding, each take the step they would take alone, and the provider ends with
\* the listing that running them one after another gives, in either order.
C11_SameAsSequential ==
  BothDone =>
    /\ \A c \in Calls : ActionOf(c) = RunAlone(start, desired[c]).act
    /\ records = OneAfterOther(desired[1], desired[2])
    /\ records = OneAfterOther(desired[2], desired[1])

\* C11, amended: each call takes the step it would take alone, and the provider ends
\* with the listing that running them one after another gives in either order, up
\* to the ids and list positions of the records the calls created.
C11_SameUpToNewIds ==
  BothDone =>
    /\ \A c \in Calls : ActionOf(c) = RunAlone(start, desired[c]).act
    /\ SameButNewIds(records, OneAfterOther(desired[1], desired[2]))
    /\ SameButNewIds(records, OneAfterOther(desired[2], desired[1]))

\* an update and a create ran interleaved: both had listed before either wrote
C11_Witness ==
  /\ BothDone
  /\ Returned(1) = start /\ Returned(2) = start
  /\ {ActionOf(1), ActionOf(2)} = {"update", "create"}
  /\ records # start

\* the record with identity id is the one the call of caller c matched: the first
\* record of its listing with the desired name and type
MatchedBy(c, id) ==
  /\ ListSucceeded(c)
  /\ \E k \in 1..Len(Returned(c)) :
       FirstAt(Returned(c), desired[c], k) /\ Returned(c)[k].id = id

\* C12: a step of a reconcile call leaves every record the provider holds in place
\* and unchanged, except the record the call matched, which only its update request
\* may change.
C12_OthersUntouched ==
  [][\A i \in 1..Len(records) :
       /\ i <= Len(records')
       /\ \/ records'[i] = records[i]
          \/ /\ pc[1] = "update"
             /\ MatchedBy(1, records[i].id)
             /\ records'[i].id = records[i].id]_vars

\* an applied update next to a record of another type and a later record of the same
\* name and type, both as they were listed
C12_Witness ==
  /\ pc[1] = "done"
  /\ ListSucceeded(1)
  /\ Len(trace[1]) = 2
  /\ trace[1][2].op = "update"
  /\ trace[1][2].applied
  /\ \E i, j \in 1..Len(records) :
       /\ i < j
       /\ records[i] = trace[1][2].req
       /\ records[i] # Returned(1)[i]
       /\ records[j] = Returned(1)[j]
       /\ SameKey(records[j], desired[1])

\* C13: a reconcile call issues no delete request, and no step of it removes a
\* record id from the provider.
C13_NeverDeletes ==
  /\ [](\A c \in Calls :
          Reconciling(c) => \A i \in 1..Len(trace[c]) : trace[c][i].op # "delete")
  /\ [][HeldIds \subseteq HeldIds']_vars

\* a call that changed the value of a record: everything it listed is still held
C13_Witness ==
  /\ pc[1] = "done"
  /\ ListSucceeded(1)
  /\ Len(Returned(1)) = MaxInit
  /\ Len(trace[1]) = 2
  /\ trace[1][2].op = "update"
  /\ trace[1][2].applied
  /\ \E k \in 1..Len(Returned(1)) :
       FirstAt(Returned(1), desired[1], k) /\ Returned(1)[k].value # desired[1].value
  /\ {Returned(1)[i].id : i \in 1..Len(Returned(1))} \subseteq HeldIds

\* the call of caller c is a delete call
Deleting(c) == trace[c] # <<>> /\ trace[c][1].op = "delete"

\* C14: a delete call issues exactly one request; for an id the provider does not
\* hold it returns an error and leaves the records as they were; and of two deletes
\* of the same id at most one succeeds, the one that removed the record.
C14_DeleteNotIdempotent ==
  /\ [](\A c \in Calls :
          Deleting(c) =>
            /\ pc[c] = "done"
            /\ Len(trace[c]) = 1
            /\ result[c].ok => trace[c][1].applied)
  /\ [](\A c, o \in Calls :
          (c # o /\ Deleting(c) /\ Deleting(o) /\ trace[c][1].req = trace[o][1].req)
            => ~(result[c].ok /\ result[o].ok))
  /\ [][\A c \in Calls :
          (trace'[c] # trace[c] /\ Deleting(c)' /\ trace'[c][1].req \notin HeldIds) =>
            (~result'[c].ok /\ records' = records)]_vars

\* the same id deleted twice: the first call succeeded, the second was answered with
\* a failure status and returned an error
C14_Witness ==
  /\ Deleting(1) /\ Deleting(2)
  /\ trace[1][1].req = trace[2][1].req
  /\ result[1].ok
  /\ trace[2][1].resp.arrived
  /\ result[2] = Err("status")

\* the records of the response bodies caller c has decoded in its call
Received(c) ==
  UNION { IF trace[c][i].resp.arrived /\ trace[c][i].resp.body.decodes
          THEN {trace[c][i].resp.body.val[k] : k \in 1..Len(trace[c][i].resp.body.val)}
          ELSE {} : i \in 1..Len(trace[c]) }

\* C15: a record a reconcile call returns is a record of one of the provider's
\* responses to that call, id and zone id included; and when the provider applied
\* the call's write, or the call found the record up to date, the provider holds
\* that very record.
C15_ProviderIdentity ==
  \A c \in Calls :
    (Reconciling(c) /\ pc[c] = "done" /\ result[c].ok) =>
      /\ Len(result[c].val) = 1
      /\ result[c].val[1] \in Received(c)
      /\ (Len(trace[c]) = 1 \/ trace[c][2].applied) =>
           \E i \in 1..Len(records) : records[i] = result[c].val[1]

\* an update of a record of another zone id returned the stored record, zone id kept
C15_Witness ==
  \E c \in Calls :
    /\ Reconciling(c) /\ pc[c] = "done" /\ result[c].ok
    /\ Len(trace[c]) = 2
    /\ trace[c][2].op = "update"
    /\ trace[c][2].applied
    /\ result[c].val[1].zone_id # ConfigZone
    /\ \E i \in 1..Len(records) : records[i] = result[c].val[1]

\* a name with its letter case and a trailing dot taken away
Canon(n) == IF n \in {"APP", "app."} THEN "app" ELSE n

\* r is no match for d, yet has d's name and another type, or d's type and a name
\* that differs from d's only in letter case or a trailing dot
NearMiss(r, d) ==
  \/ r.name = d.hostname /\ r.type_ # d.type_
  \/ r.type_ = d.type_ /\ r.name # d.hostname /\ Canon(r.name) = Canon(d.hostname)

\* r has not the value and ttl that d asks for
Differs(r, d) == r.value # d.value \/ r.ttl # d.ttl

\* C16: the record a call compares, returns or updates is the first listed record
\* whose name and type equal the desired ones exactly; when no listed record does,
\* near misses included, the call takes the create path; later records with the same
\* name and type play no part, also when one of them already equals the desired record.
C16_FirstExactMatch ==
  \A c \in Calls :
    ListSucceeded(c) =>
      /\ NoMatch(Returned(c), desired[c]) =>
           /\ pc[c] \in {"create", "done"}
           /\ Len(trace[c]) = 2 => trace[c][2].op = "create"
           /\ pc[c] = "done" => Len(trace[c]) = 2
      /\ \A i \in 1..Len(Returned(c)) :
           FirstAt(Returned(c), desired[c], i) =>
             /\ pc[c] \in {"update", "done"}
             /\ Len(trace[c]) = 2 =>
                  /\ trace[c][2].op = "update"
                  /\ trace[c][2].req.id = Returned(c)[i].id
                  /\ Differs(Returned(c)[i], desired[c])
             /\ (pc[c] = "done" /\ Len(trace[c]) = 1) =>
                  /\ result[c] = Ok(<<Returned(c)[i]>>)
                  /\ ~Differs(Returned(c)[i], desired[c])

\* one call updated the first of two records with its name and type although the
\* second already was what it desired; the other call, listing only near misses of
\* its name, created a record
C16_Witness ==
  \E c, o \in Calls :
    /\ c # o
    /\ pc[c] = "done" /\ pc[o] = "done"
    /\ ListSucceeded(c) /\ ListSucceeded(o)
    /\ Len(trace[c]) = 2 /\ trace[c][2].op = "update"
    /\ trace[c][2].req.id = Returned(c)[1].id
    /\ Len(Returned(c)) >= 2
    /\ SameKey(Returned(c)[2], desired[c])
    /\ ~Differs(Returned(c)[2], desired[c])
    /\ Len(trace[o]) = 2 /\ trace[o][2].op = "create"
    /\ \E i \in 1..Len(Returned(o)) : NearMiss(Returned(o)[i], desired[o])

\* the step that the listing returned to caller c calls for
Called(c) ==
  IF NoMatch(Returned(c), desired[c]) THEN "create"
  ELSE IF \E i \in 1..Len(Returned(c)) :
            FirstAt(Returned(c), desired[c], i) /\ Differs(Returned(c)[i], desired[c])
       THEN "update"
  ELSE "none"

\* the provider's first record with d's name and type has d's value and ttl
Restored(d) ==
  \E i \in 1..Len(records) : FirstAt(records, d, i) /\ ~Differs(records[i], d)

\* C17: the step a call takes is the one the listing fetched in that call calls for;
\* so a call that repeats reconcile(d) after another writer changed or deleted the
\* record the earlier call left issues an update or a create, and once the provider
\* has applied it the first record with d's name and type is what d asks for again.
C17_NoCaching ==
  /\ ListSucceeded(1) =>
       /\ pc[1] \in {Called(1), "done"}
       /\ pc[1] = "done" => ActionOf(1) = Called(1)
  /\ (stale = "restoring" /\ ListSucceeded(1)) =>
       /\ Called(1) \in {"update", "create"}
       /\ (Len(trace[1]) = 2 /\ trace[1][2].applied) => Restored(desired[1])

\* the record was deleted by the other writer and the repeated call created it anew
C17_Witness ==
  /\ stale = "restoring"
  /\ pc[1] = "done"
  /\ ListSucceeded(1)
  /\ Len(trace[1]) = 2
  /\ trace[1][2].op = "create"
  /\ trace[1][2].applied
  /\ result[1].ok
  /\ Restored(desired[1])
  /\ Len(records) < nextId - 1

\* list holds at most one record with d's name and type
KeyAtMostOnce(list, d) ==
  \A i, j \in 1..Len(list) : (SameKey(list[i], d) /\ SameKey(list[j], d)) => i = j

\* C18: once reconcile(d) has returned a record, with no other writer, the provider
\* holds a record with d's name, type, value and ttl; and when the listing of the call
\* held d's name and type at most once, that record is the first with that name and type.
C18_Converges ==
  (pc[1] = "done" /\ Reconciling(1) /\ result[1].ok) =>
    /\ Holding(desired[1]) # {}
    /\ KeyAtMostOnce(Returned(1), desired[1]) => Restored(desired[1])

\* the listing returned to caller c held d's name and type once, under this id
ListedOnce(c, id) ==
  /\ ListSucceeded(c)
  /\ KeyAtMostOnce(Returned(c), desired[c])
  /\ \E i \in 1..Len(Returned(c)) :
       SameKey(Returned(c)[i], desired[c]) /\ Returned(c)[i].id = id

\* a delete call removed the record with this id
Deleted(id) ==
  \E o \in Calls : Deleting(o) /\ trace[o][1].req = id /\ trace[o][1].applied

\* the value and ttl the listing holds under this id
ValueOf(list, id) ==
  {<<list[i].value, list[i].ttl>> : i \in {j \in 1..Len(list) : list[j].id = id}}

\* the step is an update request of caller c for this id that the provider applied
AppliedUpdate(c, id) ==
  /\ pc[c] = "update"
  /\ pc'[c] = "done"
  /\ trace'[c][2].op = "update"
  /\ trace'[c][2].applied
  /\ trace'[c][2].req.id = id

\* C19: when the calls reconciling a name and type each listed it once, under one id,
\* and no delete call removed that record, none of them issues a create request, the
\* provider goes on holding that name and type once and under that id, and the value
\* and ttl of the record are set by each update request the provider applies and by
\* nothing else, so that they end as the last applied update left them.
C19_NoDuplicate ==
  /\ [](\A c \in Calls, id \in 1..MaxId :
          (ListedOnce(c, id) /\ ~Deleted(id)) =>
            /\ pc[c] # "create"
            /\ ActionOf(c) # "create"
            /\ \E i \in 1..Len(records) :
                 /\ records[i].id = id
                 /\ \A j \in 1..Len(records) : SameKey(records[j], desired[c]) <=> j = i)
  /\ [][\A id \in HeldIds \cap HeldIds' :
          IF \E c \in Calls : AppliedUpdate(c, id)
            THEN \A c \in Calls :
                   AppliedUpdate(c, id) =>
                     ValueOf(records', id) = {<<desired[c].value, desired[c].ttl>>}
            ELSE ValueOf(records', id) = ValueOf(records, id)]_vars

\* both callers listed the one record before either updated it, each asking for a
\* different value or ttl; the provider applied both updates and holds the record
\* once, under its id, as the update of caller 2 left it
C19_Witness ==
  /\ \A c \in Calls :
       /\ pc[c] = "done"
       /\ ListedOnce(c, 1)
       /\ ActionOf(c) = "update"
       /\ trace[c][2].applied
  /\ Returned(1) = Returned(2)
  /\ desired[1].hostname = desired[2].hostname
  /\ desired[1].type_ = desired[2].type_
  /\ Differs(records[1], desired[1])
  /\ ~Differs(records[1], desired[2])
  /\ records[1].id = 1
  /\ \A j \in 1..Len(records) : SameKey(records[j], desired[1]) <=> j = 1

====
